---- MODULE Spec2Model ----
(***************************************************************************)
(* A model of the 3D Vector class of Vector.js (src/src/index.js, and its  *)
(* near-identical twin src/unnamed/part_000).                              *)
(*                                                                         *)
(* Objects live in a heap (a sequence of vectors; an object's identity is  *)
(* its index), so that aliasing of operands and of the optional output     *)
(* vector of the static operations is visible.  Numbers are JavaScript     *)
(* numbers: NaN, +Infinity, -Infinity, -0 and the finite values, which are *)
(* kept as exact reduced fractions.  Rounding and overflow of finite       *)
(* results are outside the model; the non-finite values and the two zeros  *)
(* follow IEEE-754 as JavaScript's operators do.  Math.sqrt is taken only  *)
(* of values whose root is a fraction, and the trigonometric operations    *)
(* (fromAngles, randomDirection, toAngles, angleTo, angleBetween), whose   *)
(* results are no fractions, are left out; they read their operands        *)
(* through dot and length and build their vectors with the constructor.    *)
(***************************************************************************)
EXTENDS Integers, Sequences, FiniteSets

(***************************************************************************)
(* Bounds of the model.                                                    *)
(***************************************************************************)
\* the number of calls made after the initial constructions
MaxCalls == 1
\* the largest numerator and denominator of a component a call is made on
MaxMagnitude == 6
\* the largest count toArray is asked for (counts are -MaxCount .. MaxCount)
MaxCount == 4

(***************************************************************************)
(* JavaScript numbers.                                                     *)
(***************************************************************************)
NaN == [k |-> "nan", n |-> 0, d |-> 1]
PInf == [k |-> "pinf", n |-> 0, d |-> 1]
NInf == [k |-> "ninf", n |-> 0, d |-> 1]
NegZero == [k |-> "nzero", n |-> 0, d |-> 1]
\* the value of a missing argument or of an array index past the end
Undefined == [k |-> "undef", n |-> 0, d |-> 1]

Abs(i) == IF i < 0 THEN -i ELSE i

RECURSIVE GCD(_, _)
GCD(a, b) == IF b = 0 THEN a ELSE GCD(b, a % b)

\* the finite number n/d (d # 0), as a reduced fraction with d > 0
Fin(n, d) ==
  LET g == GCD(Abs(n), Abs(d))
      s == IF d < 0 THEN -1 ELSE 1
  IN  [k |-> "fin", n |-> (s * n) \div g, d |-> (s * d) \div g]

Int2Num(i) == Fin(i, 1)
Zero == Int2Num(0)

IsNaN(v) == v.k = "nan"
IsInf(v) == v.k \in {"pinf", "ninf"}
IsZero(v) == v.k = "nzero" \/ (v.k = "fin" /\ v.n = 0)
\* the sign bit of a number that is not NaN
SignBit(v) == v.k \in {"ninf", "nzero"} \/ (v.k = "fin" /\ v.n < 0)
SignedZero(neg) == IF neg THEN NegZero ELSE Zero
SignedInf(neg) == IF neg THEN NInf ELSE PInf

\* unary minus
Neg(v) ==
  CASE v.k = "nan" -> NaN
    [] v.k = "pinf" -> NInf
    [] v.k = "ninf" -> PInf
    [] v.k = "nzero" -> Zero
    [] OTHER -> IF v.n = 0 THEN NegZero ELSE Fin(-v.n, v.d)

\* a + b
Plus(a, b) ==
  CASE IsNaN(a) \/ IsNaN(b) -> NaN
    [] IsInf(a) /\ IsInf(b) -> IF a.k = b.k THEN a ELSE NaN
    [] IsInf(a) -> a
    [] IsInf(b) -> b
    [] IsZero(a) /\ IsZero(b) -> SignedZero(SignBit(a) /\ SignBit(b))
    [] OTHER -> Fin(a.n * b.d + b.n * a.d, a.d * b.d)

\* a - b
Minus(a, b) == Plus(a, Neg(b))

\* a * b
Times(a, b) ==
  CASE IsNaN(a) \/ IsNaN(b) -> NaN
    [] (IsInf(a) /\ IsZero(b)) \/ (IsZero(a) /\ IsInf(b)) -> NaN
    [] IsInf(a) \/ IsInf(b) -> SignedInf(SignBit(a) # SignBit(b))
    [] IsZero(a) \/ IsZero(b) -> SignedZero(SignBit(a) # SignBit(b))
    [] OTHER -> Fin(a.n * b.n, a.d * b.d)

\* a / b
Over(a, b) ==
  CASE IsNaN(a) \/ IsNaN(b) -> NaN
    [] (IsInf(a) /\ IsInf(b)) \/ (IsZero(a) /\ IsZero(b)) -> NaN
    [] IsInf(a) \/ IsZero(b) -> SignedInf(SignBit(a) # SignBit(b))
    [] IsInf(b) \/ IsZero(a) -> SignedZero(SignBit(a) # SignBit(b))
    [] OTHER -> Fin(a.n * b.d, a.d * b.n)

\* a === b
StrictEq(a, b) ==
  /\ ~IsNaN(a)
  /\ ~IsNaN(b)
  /\ \/ a = b
     \/ IsZero(a) /\ IsZero(b)

\* a || 0 : a falsy value (undefined, NaN, 0, -0) is replaced by 0
OrZero(a) == IF a.k \in {"undef", "nan"} \/ IsZero(a) THEN Zero ELSE a

\* Math.sqrt, on the values whose root the fractions can hold
RECURSIVE RootFrom(_, _)
RootFrom(i, r) == IF (r + 1) * (r + 1) > i THEN r ELSE RootFrom(i, r + 1)
\* the integer part of the square root of i >= 0
Root(i) == RootFrom(i, 0)
IsSquare(i) == Root(i) * Root(i) = i
HasRoot(v) == v.k # "fin" \/ v.n < 0 \/ (IsSquare(v.n) /\ IsSquare(v.d))
Sqrt(v) ==
  CASE v.k \in {"nan", "ninf"} -> NaN
    [] v.k \in {"pinf", "nzero"} -> v
    [] OTHER -> IF v.n < 0 THEN NaN ELSE Fin(Root(v.n), Root(v.d))

\* Math.min and Math.max of two numbers
MathMin(a, b) ==
  CASE IsNaN(a) \/ IsNaN(b) -> NaN
    [] IsZero(a) /\ IsZero(b) -> SignedZero(SignBit(a) \/ SignBit(b))
    [] OTHER -> IF SignBit(Minus(a, b)) THEN a ELSE b
MathMax(a, b) ==
  CASE IsNaN(a) \/ IsNaN(b) -> NaN
    [] IsZero(a) /\ IsZero(b) -> SignedZero(SignBit(a) /\ SignBit(b))
    [] OTHER -> IF SignBit(Minus(a, b)) THEN b ELSE a

(***************************************************************************)
(* Vectors and the heap.  A call's outcome is the heap it leaves, the      *)
(* object it returns (0 when it returns no vector) and the scalars or      *)
(* array it returns (val).                                                 *)
(***************************************************************************)
Vec(x, y, z) == [x |-> x, y |-> y, z |-> z]
Outcome(h, ret, val) == [heap |-> h, ret |-> ret, val |-> val]

\* the second operand of an arithmetic call: a Vector (ref # 0) or a scalar
VecArg(o) == [ref |-> o, num |-> Zero]
NumArg(s) == [ref |-> 0, num |-> s]
IsVector(b) == b.ref # 0

\* new Vector( x, y, z )
constructor(h, x, y, z) ==
  Outcome(Append(h, Vec(OrZero(x), OrZero(y), OrZero(z))), Len(h) + 1, <<>>)

\* faulty variant, for sensitivity: the default output vector is one shared object, not a new one
DefaultOut_shared(h, out) ==
  IF out = 0 THEN Outcome([h EXCEPT ![1] = Vec(Zero, Zero, Zero)], 1, <<>>)
  ELSE Outcome(h, out, <<>>)

\* the default value of the output parameter: c = new Vector( 0,0,0 )
DefaultOut(h, out) ==
  IF out = 0 THEN constructor(h, Zero, Zero, Zero) ELSE Outcome(h, out, <<>>)

\* c.x = fx; c.y = fy; c.z = fz; return c, each right-hand side read from
\* the heap as the assignments before it left it
Assign3(h, c, fx(_), fy(_), fz(_)) ==
  LET h1 == [h EXCEPT ![c].x = fx(h)]
      h2 == [h1 EXCEPT ![c].y = fy(h1)]
      h3 == [h2 EXCEPT ![c].z = fz(h2)]
  IN  Outcome(h3, c, <<>>)

(***************************************************************************)
(* Static operations.  The output vector (out = 0: omitted) is the fresh   *)
(* default or the caller's; the three components are assigned in order.    *)
(***************************************************************************)
\* static negative( a, b = new Vector(0,0,0) )
Vector_negative(h, a, out) ==
  LET c == DefaultOut(h, out)
  IN  Assign3(c.heap, c.ret,
              LAMBDA g : Neg(g[a].x),
              LAMBDA g : Neg(g[a].y),
              LAMBDA g : Neg(g[a].z))

\* static add( a, b, c = new Vector(0,0,0) )
Vector_add(h, a, b, out) ==
  LET c == DefaultOut(h, out)
  IN  IF IsVector(b)
      THEN Assign3(c.heap, c.ret,
                   LAMBDA g : Plus(g[a].x, g[b.ref].x),
                   LAMBDA g : Plus(g[a].y, g[b.ref].y),
                   LAMBDA g : Plus(g[a].z, g[b.ref].z))
      ELSE Assign3(c.heap, c.ret,
                   LAMBDA g : Plus(g[a].x, b.num),
                   LAMBDA g : Plus(g[a].y, b.num),
                   LAMBDA g : Plus(g[a].z, b.num))

\* static subtract( a, b, c = new Vector(0,0,0) )
Vector_subtract(h, a, b, out) ==
  LET c == DefaultOut(h, out)
  IN  IF IsVector(b)
      THEN Assign3(c.heap, c.ret,
                   LAMBDA g : Minus(g[a].x, g[b.ref].x),
                   LAMBDA g : Minus(g[a].y, g[b.ref].y),
                   LAMBDA g : Minus(g[a].z, g[b.ref].z))
      ELSE Assign3(c.heap, c.ret,
                   LAMBDA g : Minus(g[a].x, b.num),
                   LAMBDA g : Minus(g[a].y, b.num),
                   LAMBDA g : Minus(g[a].z, b.num))

\* static multiply( a, b, c = new Vector(0,0,0) )
Vector_multiply(h, a, b, out) ==
  LET c == DefaultOut(h, out)
  IN  IF IsVector(b)
      THEN Assign3(c.heap, c.ret,
                   LAMBDA g : Times(g[a].x, g[b.ref].x),
                   LAMBDA g : Times(g[a].y, g[b.ref].y),
                   LAMBDA g : Times(g[a].z, g[b.ref].z))
      ELSE Assign3(c.heap, c.ret,
                   LAMBDA g : Times(g[a].x, b.num),
                   LAMBDA g : Times(g[a].y, b.num),
                   LAMBDA g : Times(g[a].z, b.num))

\* static divide( a, b, c = new Vector(0,0,0) )
Vector_divide(h, a, b, out) ==
  LET c == DefaultOut(h, out)
  IN  IF IsVector(b)
      THEN Assign3(c.heap, c.ret,
                   LAMBDA g : Over(g[a].x, g[b.ref].x),
                   LAMBDA g : Over(g[a].y, g[b.ref].y),
                   LAMBDA g : Over(g[a].z, g[b.ref].z))
      ELSE Assign3(c.heap, c.ret,
                   LAMBDA g : Over(g[a].x, b.num),
                   LAMBDA g : Over(g[a].y, b.num),
                   LAMBDA g : Over(g[a].z, b.num))

\* static cross( a, b, c = new Vector(0,0,0) )
Vector_cross(h, a, b, out) ==
  LET c == DefaultOut(h, out)
  IN  Assign3(c.heap, c.ret,
              LAMBDA g : Minus(Times(g[a].y, g[b].z), Times(g[a].z, g[b].y)),
              LAMBDA g : Minus(Times(g[a].z, g[b].x), Times(g[a].x, g[b].z)),
              LAMBDA g : Minus(Times(g[a].x, g[b].y), Times(g[a].y, g[b].x)))

(***************************************************************************)
(* Instance methods.  Every vector they return is built by the constructor.*)
(***************************************************************************)
\* negative()
negative(h, this) ==
  constructor(h, Neg(h[this].x), Neg(h[this].y), Neg(h[this].z))

\* faulty variant, for sensitivity: add accumulates into the receiver and returns it
add_inplace(h, this, v) ==
  IF IsVector(v)
  THEN Outcome([h EXCEPT ![this] = Vec(Plus(h[this].x, h[v.ref].x),
                                        Plus(h[this].y, h[v.ref].y),
                                        Plus(h[this].z, h[v.ref].z))], this, <<>>)
  ELSE Outcome([h EXCEPT ![this] = Vec(Plus(h[this].x, v.num),
                                        Plus(h[this].y, v.num),
                                        Plus(h[this].z, v.num))], this, <<>>)

\* add( v )
add(h, this, v) ==
  IF IsVector(v)
  THEN constructor(h, Plus(h[this].x, h[v.ref].x), Plus(h[this].y, h[v.ref].y),
                   Plus(h[this].z, h[v.ref].z))
  ELSE constructor(h, Plus(h[this].x, v.num), Plus(h[this].y, v.num),
                   Plus(h[this].z, v.num))

\* subtract( v )
subtract(h, this, v) ==
  IF IsVector(v)
  THEN constructor(h, Minus(h[this].x, h[v.ref].x), Minus(h[this].y, h[v.ref].y),
                   Minus(h[this].z, h[v.ref].z))
  ELSE constructor(h, Minus(h[this].x, v.num), Minus(h[this].y, v.num),
                   Minus(h[this].z, v.num))

\* multiply( v )
multiply(h, this, v) ==
  IF IsVector(v)
  THEN constructor(h, Times(h[this].x, h[v.ref].x), Times(h[this].y, h[v.ref].y),
                   Times(h[this].z, h[v.ref].z))
  ELSE constructor(h, Times(h[this].x, v.num), Times(h[this].y, v.num),
                   Times(h[this].z, v.num))

\* divide( v )
divide(h, this, v) ==
  IF IsVector(v)
  THEN constructor(h, Over(h[this].x, h[v.ref].x), Over(h[this].y, h[v.ref].y),
                   Over(h[this].z, h[v.ref].z))
  ELSE constructor(h, Over(h[this].x, v.num), Over(h[this].y, v.num),
                   Over(h[this].z, v.num))

\* equals( v ), a boolean
equals(h, this, v) ==
  /\ StrictEq(h[this].x, h[v].x)
  /\ StrictEq(h[this].y, h[v].y)
  /\ StrictEq(h[this].z, h[v].z)

\* dot( v ), a number
dot(h, this, v) ==
  Plus(Plus(Times(h[this].x, h[v].x), Times(h[this].y, h[v].y)),
       Times(h[this].z, h[v].z))

\* faulty variant, for sensitivity: the last component of the product adds where it should subtract
cross_plus(h, this, v) ==
  constructor(h,
              Minus(Times(h[this].y, h[v].z), Times(h[this].z, h[v].y)),
              Minus(Times(h[this].z, h[v].x), Times(h[this].x, h[v].z)),
              Plus(Times(h[this].x, h[v].y), Times(h[this].y, h[v].x)))

\* cross( v )
cross(h, this, v) ==
  constructor(h,
              Minus(Times(h[this].y, h[v].z), Times(h[this].z, h[v].y)),
              Minus(Times(h[this].z, h[v].x), Times(h[this].x, h[v].z)),
              Minus(Times(h[this].x, h[v].y), Times(h[this].y, h[v].x)))

\* length(), a number
length(h, this) == Sqrt(dot(h, this, this))

\* unit()
unit(h, this) == divide(h, this, NumArg(length(h, this)))

\* static unit( a, b = new Vector(0,0,0) )
Vector_unit(h, a, out) ==
  LET c == DefaultOut(h, out)
      len == length(c.heap, a)
  IN  Assign3(c.heap, c.ret,
              LAMBDA g : Over(g[a].x, len),
              LAMBDA g : Over(g[a].y, len),
              LAMBDA g : Over(g[a].z, len))

\* min(), a number
min(h, this) == MathMin(MathMin(h[this].x, h[this].y), h[this].z)

\* max(), a number
max(h, this) == MathMax(MathMax(h[this].x, h[this].y), h[this].z)

\* static min( a, b )
Vector_min(h, a, b) ==
  constructor(h, MathMin(h[a].x, h[b].x), MathMin(h[a].y, h[b].y),
              MathMin(h[a].z, h[b].z))

\* static max( a, b )
Vector_max(h, a, b) ==
  constructor(h, MathMax(h[a].x, h[b].x), MathMax(h[a].y, h[b].y),
              MathMax(h[a].z, h[b].z))

\* faulty variant, for sensitivity: the weights of a and b are exchanged
Vector_lerp_swapped(h, a, b, t) ==
  LET p == multiply(h, a, NumArg(t))
      q == multiply(p.heap, b, NumArg(Minus(Int2Num(1), t)))
  IN  add(q.heap, p.ret, VecArg(q.ret))

\* static lerp( a, b, t ): a.multiply( 1 - t ).add( b.multiply( t ))
Vector_lerp(h, a, b, t) ==
  LET p == multiply(h, a, NumArg(Minus(Int2Num(1), t)))
      q == multiply(p.heap, b, NumArg(t))
  IN  add(q.heap, p.ret, VecArg(q.ret))

\* a[i] of a JavaScript array (indices from 0): undefined past the end
At(arr, i) == IF i + 1 <= Len(arr) THEN arr[i + 1] ELSE Undefined

\* faulty variant, for sensitivity: fromArray reads the array from index 1
Vector_fromArray_shifted(h, arr) == constructor(h, At(arr, 1), At(arr, 2), At(arr, 3))

\* static fromArray( a )
Vector_fromArray(h, arr) == constructor(h, At(arr, 0), At(arr, 1), At(arr, 2))

\* static fromVector( v ): new Vector( v.x, v.y, v.z ?? 0 )
Vector_fromVector(h, v) == constructor(h, h[v].x, h[v].y, h[v].z)

\* ToIntegerOrInfinity of a number that is not NaN, as an integer; the
\* infinities are cut to -Big and Big, which Array.prototype.slice clamps
Trunc(v, Big) ==
  CASE v.k = "pinf" -> Big
    [] v.k = "ninf" -> -Big
    [] v.k = "nzero" -> 0
    [] OTHER -> IF v.n < 0 THEN -((-v.n) \div v.d) ELSE v.n \div v.d

\* faulty variant, for sensitivity: slice with a negative end clamped to 0, not counted from the end
Slice0_clamped(arr, end) ==
  LET len == Len(arr)
      e == Trunc(end, len)
  IN  SubSeq(arr, 1, IF e < 0 THEN 0 ELSE IF e < len THEN e ELSE len)

\* arr.slice( 0, end )
Slice0(arr, end) ==
  LET len == Len(arr)
      e == Trunc(end, len)
      final == IF e < 0
               THEN (IF len + e < 0 THEN 0 ELSE len + e)
               ELSE (IF e < len THEN e ELSE len)
  IN  SubSeq(arr, 1, final)

\* toArray( n ): [ this.x, this.y, this.z ].slice( 0, n || 3 )
toArray(h, this, n) ==
  Slice0(<<h[this].x, h[this].y, h[this].z>>,
         IF n.k \in {"undef", "nan"} \/ IsZero(n) THEN Int2Num(3) ELSE n)

\* clone()
clone(h, this) == constructor(h, h[this].x, h[this].y, h[this].z)

\* init( x, y, z ): this.x = x; this.y = y; this.z = z; return this
init(h, this, x, y, z) ==
  Outcome([h EXCEPT ![this] = Vec(x, y, z)], this, <<>>)

(***************************************************************************)
(* The state: the heap of vectors the caller holds, the heap as it was     *)
(* before the last call, the last call, and the number of calls made.      *)
(***************************************************************************)
VARIABLES heap, pre, last, calls
vars == <<heap, pre, last, calls>>

\* the arguments the calls are given
Objs == 1..Len(heap)
Outs == {0} \cup Objs
Scalars == {Int2Num(i) : i \in {-1, 0, 1, 2}}
Operands == {VecArg(o) : o \in Objs} \cup {NumArg(s) : s \in Scalars}
Firsts == {<<1, 2, 3>>, <<0, 3, 4>>}
Seconds == {<<4, 5, 6>>, <<0, 0, 0>>}
Triples == Firsts \cup Seconds
Counts == {Undefined} \cup {Int2Num(i) : i \in -MaxCount..MaxCount}
Arrays == {toArray(heap, o, n) : o \in Objs, n \in Counts}

NoArg == NumArg(Zero)
Call(op, a, b, out, arg, ret, val) ==
  [op |-> op, a |-> a, b |-> b, out |-> out, arg |-> arg, ret |-> ret, val |-> val]

\* The heap after a call: the objects the caller held, and the returned
\* vector when it is a new one; the temporaries of the call are garbage.
Collect(h, r) ==
  IF r.ret > Len(h) THEN Append(SubSeq(r.heap, 1, Len(h)), r.heap[r.ret])
  ELSE SubSeq(r.heap, 1, Len(h))
Returned(h, r) == IF r.ret > Len(h) THEN Len(h) + 1 ELSE r.ret

\* the calls are made on vectors of small components
Small(v) == v.k # "fin" \/ (Abs(v.n) <= MaxMagnitude /\ v.d <= MaxMagnitude)
SmallHeap == \A o \in Objs : Small(heap[o].x) /\ Small(heap[o].y) /\ Small(heap[o].z)
Ready == calls < MaxCalls /\ SmallHeap

\* one call, with outcome r
Step(op, a, b, out, arg, r) ==
  /\ Ready
  /\ heap' = Collect(heap, r)
  /\ pre' = heap
  /\ last' = Call(op, a, b, out, arg, Returned(heap, r), r.val)
  /\ calls' = calls + 1

\* a call that returns a number (or a boolean) and allocates nothing
Value(op, a, b, arg, val) == Step(op, a, b, 0, arg, Outcome(heap, 0, val))

True == [k |-> "true", n |-> 0, d |-> 1]
False == [k |-> "false", n |-> 0, d |-> 1]

\* the caller starts with two vectors built by the constructor
Init ==
  /\ \E t1 \in Firsts, t2 \in Seconds :
        heap = constructor(constructor(<<>>, Int2Num(t1[1]), Int2Num(t1[2]),
                                       Int2Num(t1[3])).heap,
                           Int2Num(t2[1]), Int2Num(t2[2]), Int2Num(t2[3])).heap
  /\ pre = heap
  /\ last = Call("none", 0, NoArg, 0, <<>>, 0, <<>>)
  /\ calls = 0

New ==
  \E t \in Triples :
    Step("new", 0, NoArg, 0, <<Int2Num(t[1]), Int2Num(t[2]), Int2Num(t[3])>>,
         constructor(heap, Int2Num(t[1]), Int2Num(t[2]), Int2Num(t[3])))

StaticNegative ==
  \E a \in Objs, out \in Outs :
    Step("Vector.negative", a, NoArg, out, <<>>, Vector_negative(heap, a, out))

StaticAdd ==
  \E a \in Objs, b \in Operands, out \in Outs :
    Step("Vector.add", a, b, out, <<>>, Vector_add(heap, a, b, out))

StaticSubtract ==
  \E a \in Objs, b \in Operands, out \in Outs :
    Step("Vector.subtract", a, b, out, <<>>, Vector_subtract(heap, a, b, out))

StaticMultiply ==
  \E a \in Objs, b \in Operands, out \in Outs :
    Step("Vector.multiply", a, b, out, <<>>, Vector_multiply(heap, a, b, out))

StaticDivide ==
  \E a \in Objs, b \in Operands, out \in Outs :
    Step("Vector.divide", a, b, out, <<>>, Vector_divide(heap, a, b, out))

StaticCross ==
  \E a \in Objs, b \in Objs, out \in Outs :
    Step("Vector.cross", a, VecArg(b), out, <<>>, Vector_cross(heap, a, b, out))

StaticUnit ==
  \E a \in Objs, out \in Outs :
    /\ Ready
    /\ HasRoot(dot(heap, a, a))
    /\ Step("Vector.unit", a, NoArg, out, <<>>, Vector_unit(heap, a, out))

StaticMin ==
  \E a \in Objs, b \in Objs :
    Step("Vector.min", a, VecArg(b), 0, <<>>, Vector_min(heap, a, b))

StaticMax ==
  \E a \in Objs, b \in Objs :
    Step("Vector.max", a, VecArg(b), 0, <<>>, Vector_max(heap, a, b))

StaticLerp ==
  \E a \in Objs, b \in Objs, t \in Scalars :
    Step("Vector.lerp", a, VecArg(b), 0, <<t>>, Vector_lerp(heap, a, b, t))

StaticFromArray ==
  \E arr \in Arrays :
    Step("Vector.fromArray", 0, NoArg, 0, arr, Vector_fromArray(heap, arr))

StaticFromVector ==
  \E v \in Objs :
    Step("Vector.fromVector", v, NoArg, 0, <<>>, Vector_fromVector(heap, v))

Negative ==
  \E this \in Objs : Step("negative", this, NoArg, 0, <<>>, negative(heap, this))

Add ==
  \E this \in Objs, v \in Operands :
    Step("add", this, v, 0, <<>>, add(heap, this, v))

Subtract ==
  \E this \in Objs, v \in Operands :
    Step("subtract", this, v, 0, <<>>, subtract(heap, this, v))

Multiply ==
  \E this \in Objs, v \in Operands :
    Step("multiply", this, v, 0, <<>>, multiply(heap, this, v))

Divide ==
  \E this \in Objs, v \in Operands :
    Step("divide", this, v, 0, <<>>, divide(heap, this, v))

Equals ==
  \E this \in Objs, v \in Objs :
    Value("equals", this, VecArg(v), <<>>,
          <<IF equals(heap, this, v) THEN True ELSE False>>)

Dot ==
  \E this \in Objs, v \in Objs :
    Value("dot", this, VecArg(v), <<>>, <<dot(heap, this, v)>>)

Cross ==
  \E this \in Objs, v \in Objs :
    Step("cross", this, VecArg(v), 0, <<>>, cross(heap, this, v))

Length ==
  \E this \in Objs :
    /\ Ready
    /\ HasRoot(dot(heap, this, this))
    /\ Value("length", this, NoArg, <<>>, <<length(heap, this)>>)

Unit ==
  \E this \in Objs :
    /\ Ready
    /\ HasRoot(dot(heap, this, this))
    /\ Step("unit", this, NoArg, 0, <<>>, unit(heap, this))

Min ==
  \E this \in Objs : Value("min", this, NoArg, <<>>, <<min(heap, this)>>)

Max ==
  \E this \in Objs : Value("max", this, NoArg, <<>>, <<max(heap, this)>>)

ToArray ==
  \E this \in Objs, n \in Counts :
    Value("toArray", this, NoArg, <<n>>, toArray(heap, this, n))

Clone ==
  \E this \in Objs : Step("clone", this, NoArg, 0, <<>>, clone(heap, this))

InitCall ==
  \E this \in Objs, t \in Triples :
    Step("init", this, NoArg, 0, <<Int2Num(t[1]), Int2Num(t[2]), Int2Num(t[3])>>,
         init(heap, this, Int2Num(t[1]), Int2Num(t[2]), Int2Num(t[3])))

Next ==
  \/ New
  \/ StaticNegative
  \/ StaticAdd
  \/ StaticSubtract
  \/ StaticMultiply
  \/ StaticDivide
  \/ StaticCross
  \/ StaticUnit
  \/ StaticMin
  \/ StaticMax
  \/ StaticLerp
  \/ StaticFromArray
  \/ StaticFromVector
  \/ Negative
  \/ Add
  \/ Subtract
  \/ Multiply
  \/ Divide
  \/ Equals
  \/ Dot
  \/ Cross
  \/ Length
  \/ Unit
  \/ Min
  \/ Max
  \/ ToArray
  \/ Clone
  \/ InitCall

Spec == Init /\ [][Next]_vars

(***************************************************************************)
(* Helpers of the properties.                                              *)
(***************************************************************************)
Components(v) == <<v.x, v.y, v.z>>
HasNaN(v) == IsNaN(v.x) \/ IsNaN(v.y) \/ IsNaN(v.z)
AllNaN(v) == IsNaN(v.x) /\ IsNaN(v.y) /\ IsNaN(v.z)
AllZero(v) == IsZero(v.x) /\ IsZero(v.y) /\ IsZero(v.z)
\* the same number: equal under ===, or both NaN
Same(p, q) == StrictEq(p, q) \/ (IsNaN(p) /\ IsNaN(q))
SameVec(u, v) == Same(u.x, v.x) /\ Same(u.y, v.y) /\ Same(u.z, v.z)
\* the vector a call returned
Result(r) == r.heap[r.ret]
\* the vectors the last call created or changed: each vector the program
\* holds is one of these in the state where it got its value
Fresh ==
  IF calls = 0 THEN Objs
  ELSE {o \in Objs : o \notin DOMAIN pre \/ heap[o] # pre[o]}
\* the pairs of vectors of which the last call created or changed one
FreshPairs == (Fresh \X Objs) \cup (Objs \X Fresh)
\* the static operations that take an output vector
OutOps == {"Vector.negative", "Vector.add", "Vector.subtract", "Vector.multiply",
           "Vector.divide", "Vector.cross", "Vector.unit"}
\* the cross product of two vector values
CrossOf(u, v) ==
  Vec(Minus(Times(u.y, v.z), Times(u.z, v.y)),
      Minus(Times(u.z, v.x), Times(u.x, v.z)),
      Minus(Times(u.x, v.y), Times(u.y, v.x)))

\* the instance method of the same name as a static arithmetic operation
InstanceForm(op, h, this, v) ==
  CASE op = "Vector.add" -> add(h, this, v)
    [] op = "Vector.subtract" -> subtract(h, this, v)
    [] op = "Vector.multiply" -> multiply(h, this, v)
    [] op = "Vector.divide" -> divide(h, this, v)

(***************************************************************************)
(* C1.  Static and instance arithmetic agree: for add, subtract, multiply  *)
(* and divide, every vector a and every second operand b (a vector or a    *)
(* scalar, zero divisors included), Vector.op(a, b) with out omitted       *)
(* returns a vector whose components equal those of a.op(b).               *)
(***************************************************************************)
C1_StaticEqualsInstance ==
  (/\ last.op \in {"Vector.add", "Vector.subtract", "Vector.multiply", "Vector.divide"}
   /\ last.out = 0)
  => SameVec(heap[last.ret], Result(InstanceForm(last.op, pre, last.a, last.b)))

(***************************************************************************)
(* C2.  Vector.cross(a, b, out) returns out and leaves in it the cross     *)
(* product of the values a and b had when the call started, the value      *)
(* a.cross(b) returns, for every caller-supplied out, out being a or b     *)
(* included.                                                               *)
(***************************************************************************)
C2_CrossIntoOut ==
  (last.op = "Vector.cross" /\ last.out # 0)
  => /\ last.ret = last.out
     /\ SameVec(heap[last.out], CrossOf(pre[last.a], pre[last.b.ref]))
     /\ SameVec(heap[last.out], Result(cross(pre, last.a, last.b.ref)))

(***************************************************************************)
(* C3.  Normalising the zero vector is not guarded: for a = (0,0,0) both   *)
(* Vector.unit(a) and a.unit() return a vector whose three components are  *)
(* NaN, the result of 0/0.                                                 *)
(***************************************************************************)
C3_UnitOfZeroIsNaN ==
  (last.op \in {"Vector.unit", "unit"} /\ AllZero(pre[last.a]))
  => AllNaN(heap[last.ret])

(***************************************************************************)
(* C4.  The components of a vector change only when init is called on it   *)
(* or when it is the out argument of a static operation: every other call  *)
(* leaves every vector the caller holds, its receiver and its operands     *)
(* included, as it was, and removes none.                                  *)
(***************************************************************************)
C4_OnlyInitAndOutMutate ==
  /\ Len(heap) >= Len(pre)
  /\ \A o \in DOMAIN pre :
        heap[o] # pre[o] =>
          \/ last.op = "init" /\ last.a = o
          \/ last.op \in OutOps /\ last.out = o

\* C4, witness: a static call wrote into the out the caller supplied, which
\* is its second operand, and left its first operand alone
C4_Witness ==
  /\ last.op = "Vector.add"
  /\ last.out # 0
  /\ last.out = last.b.ref
  /\ last.a # last.out
  /\ heap[last.out] # pre[last.out]
  /\ heap[last.a] = pre[last.a]
  /\ ~AllZero(pre[last.a])

FirstOf(v, m) == SubSeq(Components(v), 1, m)
Clamp(i, lo, hi) == IF i < lo THEN lo ELSE IF i > hi THEN hi ELSE i
\* the count of the last toArray call: omitted, or an integer
CountOmitted == last.arg[1].k = "undef"
CountGiven == IF last.arg[1].k = "fin" THEN last.arg[1].n ELSE 0

RoundTrip(h, v) ==
  LET r == Vector_fromArray(h, toArray(h, v, Int2Num(3)))
  IN  equals(r.heap, r.ret, v)

(***************************************************************************)
(* C6 as claimed.  For every vector v the program can hold,                *)
(* Vector.fromArray(v.toArray(3)).equals(v) is true.                       *)
(***************************************************************************)
C6_RoundTripAll == \A v \in Fresh : RoundTrip(heap, v)

(***************************************************************************)
(* C6 as amended.  For every vector v the program can hold that has no NaN *)
(* component, Vector.fromArray(v.toArray(3)).equals(v) is true.            *)
(***************************************************************************)
C6_RoundTripNoNaN == \A v \in Fresh : ~HasNaN(heap[v]) => RoundTrip(heap, v)

\* C6, witness: fromArray was called on the three-element array of a vector of
\* distinct components, and returned an equal vector
C6_Witness ==
  /\ last.op = "Vector.fromArray"
  /\ \E v \in DOMAIN pre :
        /\ last.arg = toArray(pre, v, Int2Num(3))
        /\ pre[v].x # pre[v].y
        /\ pre[v].y # pre[v].z
        /\ equals(heap, last.ret, v)

\* a.cross( b ).equals( b.cross( a ).negative() )
AntiCommutes(h, a, b) ==
  LET c == cross(h, a, b)
      d == cross(c.heap, b, a)
      e == negative(d.heap, d.ret)
  IN  equals(e.heap, c.ret, e.ret)

\* Vector.cross( a, b ).equals( Vector.negative( Vector.cross( b, a )))
StaticAntiCommutes(h, a, b) ==
  LET c == Vector_cross(h, a, b, 0)
      d == Vector_cross(c.heap, b, a, 0)
      e == Vector_negative(d.heap, d.ret, 0)
  IN  equals(e.heap, c.ret, e.ret)

(***************************************************************************)
(* C7 as claimed.  For all vectors a and b, cross(a, b) equals             *)
(* negative(cross(b, a)) under equals, for the instance forms and for the  *)
(* static forms with out omitted.                                          *)
(***************************************************************************)
C7_AntiCommutesAll ==
  \A ab \in FreshPairs :
    AntiCommutes(heap, ab[1], ab[2]) /\ StaticAntiCommutes(heap, ab[1], ab[2])

(***************************************************************************)
(* C7 as amended.  For all vectors a and b, a.cross(b) equals              *)
(* b.cross(a).negative() under equals; the static forms with out omitted   *)
(* satisfy the same equation whenever no component of Vector.cross(a, b)   *)
(* is NaN.                                                                 *)
(***************************************************************************)
C7_AntiCommutesNoNaN ==
  \A ab \in FreshPairs :
    /\ AntiCommutes(heap, ab[1], ab[2])
    /\ ~HasNaN(Result(Vector_cross(heap, ab[1], ab[2], 0)))
         => StaticAntiCommutes(heap, ab[1], ab[2])

\* C7, witness: Vector.cross was called on two vectors whose product is not
\* zero, and the product equals the negated product of the operands exchanged
C7_Witness ==
  /\ last.op = "Vector.cross"
  /\ last.out = 0
  /\ ~AllZero(heap[last.ret])
  /\ ~HasNaN(heap[last.ret])
  /\ StaticAntiCommutes(pre, last.a, last.b.ref)
  /\ AntiCommutes(pre, last.a, last.b.ref)

\* one component of a*(1-t) + b*t
Blend(p, q, t) == Plus(Times(p, Minus(Int2Num(1), t)), Times(q, t))
BlendOf(u, v, t) == Vec(Blend(u.x, v.x, t), Blend(u.y, v.y, t), Blend(u.z, v.z, t))
\* r is p*(1-t) + q*t, unless one of the two products or their sum is NaN
BlendsTo(r, p, q, t) ==
  LET m == Times(p, Minus(Int2Num(1), t))
      n == Times(q, t)
      s == Plus(m, n)
  IN  (~IsNaN(m) /\ ~IsNaN(n) /\ ~IsNaN(s)) => StrictEq(r, s)
Others == Scalars \ {Int2Num(0), Int2Num(1)}

\* Vector.lerp( a, b, t ).equals( v )
LerpEquals(h, a, b, t, v) ==
  LET r == Vector_lerp(h, a, b, t) IN equals(r.heap, r.ret, v)

C9_CloneIsIndependentCopy ==
  \A v \in Fresh :
    LET c == clone(heap, v)
    IN  /\ c.ret \notin Objs
        /\ SameVec(Result(c), heap[v])
        /\ \A t \in Triples :
              LET x == Int2Num(t[1])
                  y == Int2Num(t[2])
                  z == Int2Num(t[3])
                  i == init(c.heap, v, x, y, z)
                  j == init(c.heap, c.ret, x, y, z)
              IN  /\ i.ret = v
                  /\ i.heap[v] = Vec(x, y, z)
                  /\ i.heap[c.ret] = c.heap[c.ret]
                  /\ j.ret = c.ret
                  /\ j.heap[c.ret] = Vec(x, y, z)
                  /\ j.heap[v] = heap[v]
====
